---- MODULE Spec2Model ----
(***************************************************************************)
(* Model of the Modexia Python SDK client (modexia/client.py):              *)
(* ModexiaClient._request, transfer, _poll_status, smart_fetch and          *)
(* _negotiate_paywall, with the remote payment service, the external        *)
(* origin and the wall clock as nondeterministic environment.               *)
(*                                                                         *)
(* Python strings are sequences of one-character strings, so that           *)
(* str.upper(), float(), re.search, f-string formatting and slicing are     *)
(* computed, not assumed.  Text that the client only passes on (URLs,       *)
(* generated keys, bodies of the external origin, the raw text of a JSON    *)
(* body) is kept as a single fragment.                                      *)
(* JSON / Python values are records [t, s, b]: t is the type tag, s the     *)
(* text of a string, b the value of a boolean.  Python dicts are functions  *)
(* from key names to such values.                                           *)
(***************************************************************************)
EXTENDS Integers, Sequences, FiniteSets, TLC

(* ------------------------------ bounds -------------------------------- *)

\* Largest number of clock units one HTTP exchange may take.
MaxLatency == 1

\* Largest number of idempotency keys the client generates (uuid4 calls).
MaxUuids == 2

(* ------------------------- program constants -------------------------- *)

\* while (time.time() - start) < 30
PollBudget == 30
\* time.sleep(2)
PollInterval == 2
\* response.text[:512]
ExcerptCap == 512

(* ------------------------------ strings ------------------------------- *)

LowerLetters ==
  <<"a","b","c","d","e","f","g","h","i","j","k","l","m",
    "n","o","p","q","r","s","t","u","v","w","x","y","z">>

UpperLetters ==
  <<"A","B","C","D","E","F","G","H","I","J","K","L","M",
    "N","O","P","Q","R","S","T","U","V","W","X","Y","Z">>

\* Mutant: a comparison that forgets to normalise case.
StrUpperIdentity(s) == s

\* str.upper(): every lower-case letter is replaced by its capital.
StrUpper(s) ==
  [i \in 1..Len(s) |->
     IF \E k \in 1..26 : LowerLetters[k] = s[i]
       THEN UpperLetters[CHOOSE k \in 1..26 : LowerLetters[k] = s[i]]
       ELSE s[i]]

\* The string literals the code compares against or formats with.
sCOMPLETE == <<"C","O","M","P","L","E","T","E">>
sCOMPLETED == <<"C","O","M","P","L","E","T","E","D">>
sFAILED == <<"F","A","I","L","E","D">>
sPENDING == <<"P","E","N","D","I","N","G">>
sNone == <<"N","o","n","e">>
sTrue == <<"T","r","u","e">>
sFalse == <<"F","a","l","s","e">>
sL402 == <<"L","4","0","2"," ">>
sTransferFailed ==
  <<"T","r","a","n","s","f","e","r"," ","F","a","i","l","e","d",":"," ">>
sUnauthorized == <<"U","n","a","u","t","h","o","r","i","z","e","d",":"," ">>
sConnectionFailed ==
  <<"C","o","n","n","e","c","t","i","o","n"," ","f","a","i","l","e","d",":"," ">>

(* --------------------------- Python values ---------------------------- *)

JNull == [t |-> "null", s |-> <<>>, b |-> FALSE]
JStr(s) == [t |-> "str", s |-> s, b |-> FALSE]
JBool(b) == [t |-> "bool", s |-> <<>>, b |-> b]
\* A JSON object as a value of a field of another object.
JDict(d) == [t |-> "dict", s |-> <<>>, b |-> FALSE, d |-> d]

\* bool(v) for the values above: None, False and "" are falsy.
Truthy(v) ==
  CASE v.t = "null" -> FALSE
    [] v.t = "bool" -> v.b
    [] v.t = "str" -> v.s # <<>>

\* str(v), as an f-string formats it.
PyStr(v) ==
  CASE v.t = "null" -> sNone
    [] v.t = "bool" -> (IF v.b THEN sTrue ELSE sFalse)
    [] v.t = "str" -> v.s

EmptyDict == [k \in {} |-> JNull]

\* dict.get(key, default)
Get(d, key, default) == IF key \in DOMAIN d THEN d[key] ELSE default

\* d[key] = value on a copy of d.
DictSet(d, key, value) ==
  [k \in (DOMAIN d) \cup {key} |-> IF k = key THEN value ELSE d[k]]

(* ------------------ decimal and float conversions --------------------- *)

DigitChars == <<"0","1","2","3","4","5","6","7","8","9">>

RECURSIVE IntStr(_)
\* str(n) of a non-negative integer, as an f-string formats a status code.
IntStr(n) ==
  IF n < 10 THEN <<DigitChars[n + 1]>>
  ELSE IntStr(n \div 10) \o <<DigitChars[(n % 10) + 1]>>

\* s[:n]
Take(s, n) == IF Len(s) <= n THEN s ELSE SubSeq(s, 1, n)

IsDigit(c) == \E k \in 1..10 : DigitChars[k] = c
DigitVal(c) == (CHOOSE k \in 1..10 : DigitChars[k] = c) - 1
AllDigits(s) == \A i \in 1..Len(s) : IsDigit(s[i])

RECURSIVE ParseInt(_)
ParseInt(s) ==
  IF s = <<>> THEN 0
  ELSE ParseInt(SubSeq(s, 1, Len(s) - 1)) * 10 + DigitVal(s[Len(s)])

\* float(s), in hundredths; -1 stands for ValueError.  Covers the plain
\* decimal notation with at most two decimals, which is what the
\* challenges of the model carry.
ParseFloat(s) ==
  LET dots == {i \in 1..Len(s) : s[i] = "."}
  IN IF dots = {}
       THEN (IF s # <<>> /\ AllDigits(s) THEN ParseInt(s) * 100 ELSE -1)
     ELSE IF Cardinality(dots) > 1 THEN -1
     ELSE LET i == CHOOSE k \in dots : TRUE
              ip == SubSeq(s, 1, i - 1)
              fp == SubSeq(s, i + 1, Len(s))
          IN IF AllDigits(ip) /\ AllDigits(fp) /\ Len(ip) + Len(fp) > 0
                /\ Len(fp) <= 2
               THEN ParseInt(ip) * 100
                    + (IF Len(fp) = 1 THEN ParseInt(fp) * 10 ELSE ParseInt(fp))
               ELSE -1

Quote == "\""

\* Mutant: the quotes around the value are optional, and the value ends
\* at a quote, a blank or the end of the header.
ReSearchUnquoted(lit, h) ==
  LET n == Len(lit)
      Stop(k) == k > Len(h) \/ h[k] = Quote \/ h[k] = " "
      MatchAt(i) ==
        /\ i + n <= Len(h)
        /\ SubSeq(h, i, i + n - 1) = lit
        /\ ~Stop(IF h[i + n] = Quote THEN i + n + 1 ELSE i + n)
      starts == {i \in 1..Len(h) : MatchAt(i)}
  IN IF starts = {} THEN [found |-> FALSE, group |-> <<>>]
     ELSE LET i == CHOOSE x \in starts : \A y \in starts : x <= y
              b == IF h[i + n] = Quote THEN i + n + 1 ELSE i + n
              e == CHOOSE x \in b..Len(h) :
                     /\ Stop(x + 1)
                     /\ \A y \in b..x : ~Stop(y)
          IN [found |-> TRUE, group |-> SubSeq(h, b, e)]

\* re.search(lit + '"([^"]+)"', h): found, and group(1) of the leftmost
\* match.
ReSearch(lit, h) ==
  LET n == Len(lit)
      Closes(i, j) ==
        /\ h[j] = Quote
        /\ \A k \in (i + n + 1)..(j - 1) : h[k] # Quote
      MatchAt(i) ==
        /\ i + n <= Len(h)
        /\ SubSeq(h, i, i + n - 1) = lit
        /\ h[i + n] = Quote
        /\ \E j \in (i + n + 2)..Len(h) : Closes(i, j)
      starts == {i \in 1..Len(h) : MatchAt(i)}
  IN IF starts = {} THEN [found |-> FALSE, group |-> <<>>]
     ELSE LET i == CHOOSE x \in starts : \A y \in starts : x <= y
              j == CHOOSE x \in (i + n + 2)..Len(h) :
                     /\ Closes(i, x)
                     /\ \A y \in (i + n + 2)..(x - 1) : ~Closes(i, y)
          IN [found |-> TRUE, group |-> SubSeq(h, i + n + 1, j - 1)]


(* ------------------------- HTTP environment --------------------------- *)

\* A response body as the wire carries it: text is response.text,
\* kind tells whether response.content is empty, parses as JSON or does
\* not, and (isObj, obj) is what response.json() yields when it parses
\* (isObj = FALSE stands for a JSON value that is not an object).
EmptyBody == [kind |-> "empty", text |-> <<>>, isObj |-> FALSE, obj |-> EmptyDict]
TextBody(text) == [kind |-> "text", text |-> text, isObj |-> FALSE, obj |-> EmptyDict]
ObjBody(text, obj) == [kind |-> "json", text |-> text, isObj |-> TRUE, obj |-> obj]
ArrayBody == [kind |-> "json", text |-> <<"[","]">>, isObj |-> FALSE, obj |-> EmptyDict]

\* What session.request / requests.get hands back: a final response, or a
\* requests.exceptions.RequestException (fault).  wraps tells whether the
\* installed requests raises its JSON decode error as a RequestException
\* (requests >= 2.27) or as a plain ValueError (older releases).
Response(status, body) ==
  [fault |-> FALSE, status |-> status, body |-> body, wraps |-> TRUE]
Fault == [fault |-> TRUE, status |-> 0, body |-> EmptyBody, wraps |-> TRUE]

HtmlText == <<"<","h","t","m","l",">">>

\* A text a server may send that is longer than the excerpt cap.
LongText == [i \in 1..(2 * ExcerptCap) |-> "x"]

(* ---------------------------- _request -------------------------------- *)

\* A parsed JSON object, as _request returns it.
Dict(obj) == [isObj |-> TRUE, obj |-> obj]

Return(val) == [kind |-> "return", exc |-> "", msg |-> JNull, val |-> val]
Raise(exc, msg) ==
  [kind |-> "raise", exc |-> exc, msg |-> msg,
   val |-> [isObj |-> FALSE, obj |-> EmptyDict]]
NoOutcome ==
  [kind |-> "none", exc |-> "", msg |-> JNull,
   val |-> [isObj |-> FALSE, obj |-> EmptyDict]]

\* The message of the ModexiaPaymentError of an error status: the body's
\* error field (response.text when it has none), or, when the body is not
\* a JSON object, the excerpt "HTTP <status> at <url>: <text[:512]>".
ErrorMessage(url, io) ==
  IF io.body.kind = "json" /\ io.body.isObj
    THEN Get(io.body.obj, "error", JStr(io.body.text))
    ELSE JStr(<<"H","T","T","P"," ">> \o IntStr(io.status)
                \o <<" ","a","t"," ">> \o url \o <<":"," ">>
                \o Take(io.body.text, ExcerptCap))

\* ModexiaClient._request: the outcome of one Transport call whose HTTP
\* exchange ended as io.
Request(url, io) ==
  IF io.fault
    THEN Raise("ModexiaNetworkError", JStr(sConnectionFailed))
  ELSE IF io.status \in {401, 403}
    THEN Raise("ModexiaAuthError", JStr(sUnauthorized \o io.body.text))
  ELSE IF io.status >= 400 /\ io.status # 402
    THEN Raise("ModexiaPaymentError", ErrorMessage(url, io))
  ELSE IF io.body.kind = "empty"
    THEN Return([isObj |-> TRUE, obj |-> EmptyDict])
  ELSE IF io.body.kind = "json"
    THEN Return([isObj |-> io.body.isObj, obj |-> io.body.obj])
  ELSE IF io.wraps
    THEN Raise("ModexiaNetworkError", JStr(sConnectionFailed))
  ELSE Raise("ValueError", JNull)

(* ------------------------ payment service data ------------------------ *)

BaseUrl == <<"https://sandbox.modexia.software">>
PayEndpoint == <<"/api/v1/agent/pay">>
\* f"/api/v1/agent/transaction/{tx_id}"
TxnEndpoint(tx) == <<"/api/v1/agent/transaction/">> \o PyStr(tx)

Tx1 == <<"t","x","1">>
Hash1 == <<"0","x","a","b">>
Reason1 == <<"n","s","f">>

\* Bodies the pay endpoint may answer with.
PayBodies ==
  { ObjBody(<<"{success:true,txId:tx1}">>,
            [success |-> JBool(TRUE), txId |-> JStr(Tx1)]),
    ObjBody(<<"{success:true}">>, [success |-> JBool(TRUE)]),
    ObjBody(<<"{success:false,error:denied}">>,
            [success |-> JBool(FALSE), error |-> JStr(<<"denied">>)]),
    ObjBody(<<"{}">>, EmptyDict),
    ArrayBody, EmptyBody, TextBody(HtmlText) }

\* The state strings the transaction endpoint may report.
WireStates ==
  { <<"P","E","N","D","I","N","G">>, <<"p","e","n","d","i","n","g">>, <<"C","O","M","P","L","E","T","E">>, <<"c","o","m","p","l","e","t","e">>, <<"C","o","m","p","l","e","t","e","d">>,
    <<"F","A","I","L","E","D">>, <<"F","a","i","l","e","d">>, <<"S","E","T","T","L","I","N","G">> }

\* Bodies the transaction endpoint may answer with.
TxnBodies ==
  { ObjBody(<<"{state}">>, [state |-> JStr(w)]) :
      w \in WireStates \ {<<"C","O","M","P","L","E","T","E">>, <<"C","o","m","p","l","e","t","e","d">>, <<"F","A","I","L","E","D">>} }
  \cup { ObjBody(<<"{state,txHash}">>,
                 [state |-> JStr(w), txHash |-> JStr(Hash1)]) :
           w \in {<<"C","O","M","P","L","E","T","E">>, <<"C","o","m","p","l","e","t","e","d">>} }
  \cup { ObjBody(<<"{state,errorReason}">>,
                 [state |-> JStr(<<"F","A","I","L","E","D">>), errorReason |-> JStr(Reason1)]),
         ObjBody(<<"{state,errorReason:long}">>,
                 [state |-> JStr(<<"F","A","I","L","E","D">>), errorReason |-> JStr(LongText)]),
         ObjBody(<<"{}">>, EmptyDict),
         ObjBody(<<"{state:null}">>, [state |-> JNull]),
         ArrayBody, EmptyBody, TextBody(HtmlText) }

\* Bodies the endpoints may send with status 402.
PayBodies402 ==
  { ObjBody(<<"{success:false,error:denied}">>,
            [success |-> JBool(FALSE), error |-> JStr(<<"denied">>)]),
    EmptyBody, TextBody(HtmlText) }
TxnBodies402 ==
  { ObjBody(<<"{state}">>, [state |-> JStr(sPENDING)]),
    ObjBody(<<"{state,txHash}">>,
            [state |-> JStr(sCOMPLETE), txHash |-> JStr(Hash1)]),
    TextBody(HtmlText) }

LongErrorBody == ObjBody(<<"{error:long}">>, [error |-> JStr(LongText)])
ErrorObjBody == ObjBody(<<"{error:denied}">>, [error |-> JStr(<<"denied">>)])

\* Every way one exchange with the payment service can end: a response
\* that is no error, an error response, a JSON decode error raised the
\* old way, or a connection-level fault.
ServiceIos(bodies, bodies402) ==
  { Response(200, b) : b \in bodies }
  \cup { Response(402, b) : b \in bodies402 }
  \cup { Response(400, ErrorObjBody), Response(400, EmptyBody),
         Response(401, TextBody(HtmlText)), Response(403, ErrorObjBody),
         Response(500, TextBody(HtmlText)), Response(500, ArrayBody),
         Response(500, TextBody(LongText)), Response(400, LongErrorBody) }
  \cup { [Response(st, TextBody(HtmlText)) EXCEPT !.wraps = FALSE] :
           st \in {200, 402} }
  \cup { Fault }

\* The clock units one exchange with the payment service may take.  The
\* clock is read in _poll_status only: the time the external origin takes
\* is not observable, and an exchange that ends the call is followed by
\* no reading of the clock, so its latency is taken as 0.  time.sleep(2)
\* is taken to last exactly PollInterval: oversleeping cannot be told
\* from latency of the poll before it.
Latencies == 0..MaxLatency

(* ------------------------ identity and __init__ ----------------------- *)

MeEndpoint == <<"/api/v1/user/me">>

\* ModexiaClient.URLS; URLS["test"] is BaseUrl above.
UrlLive == <<"https://api.modexia.software">>
UrlLocal == <<"http://localhost:3000">>

\* The key prefixes __init__ looks for.
sMxLive == <<"m","x","_","l","i","v","e","_">>
sMxTest == <<"m","x","_","t","e","s","t","_">>

\* str.startswith
StartsWith(s, prefix) ==
  Len(s) >= Len(prefix) /\ SubSeq(s, 1, Len(prefix)) = prefix

\* Mutant: the environment variable wins over the base_url argument.
ResolveBaseUrlEnvFirst(base_url, env, api_key) ==
  IF Truthy(env) THEN env.s
  ELSE IF Truthy(base_url) THEN base_url.s
  ELSE IF StartsWith(api_key, sMxLive) THEN UrlLive
  ELSE IF StartsWith(api_key, sMxTest) THEN BaseUrl
  ELSE UrlLocal

\* __init__, lines 77-86: base_url is the argument (None or a string), env
\* is os.environ.get("MODEXIA_BASE_URL") (None or a string).
ResolveBaseUrl(base_url, env, api_key) ==
  IF Truthy(base_url) THEN base_url.s
  ELSE IF Truthy(env) THEN env.s
  ELSE IF StartsWith(api_key, sMxLive) THEN UrlLive
  ELSE IF StartsWith(api_key, sMxTest) THEN BaseUrl
  ELSE UrlLocal

\* A Python value that came out of JSON, in the form _request returns.
AsData(v) ==
  IF v.t = "dict" THEN Dict(v.d) ELSE [isObj |-> FALSE, obj |-> EmptyDict]

\* _validate_session, lines 150-154, on the outcome of its _request:
\* res.get('data', res), then data.get('username') for the log line.
ValidateSession(out) ==
  IF out.kind = "raise" THEN out
  ELSE IF ~out.val.isObj THEN Raise("AttributeError", JNull)
  ELSE LET data == IF "data" \in DOMAIN out.val.obj
                     THEN AsData(out.val.obj["data"])
                     ELSE out.val
       IN IF data.isObj THEN Return(data)
          ELSE Raise("AttributeError", JNull)

sZero == <<"0">>

\* Mutant: the balance is read from the identity cached by __init__.
BalanceFromCache(client, v) ==
  IF v.kind = "raise" THEN v
  ELSE Return(Get(client.identity.obj, "balance", JStr(sZero)))

\* retrieve_balance, lines 166-167, on what _validate_session gave.
BalanceFrom(client, v) ==
  IF v.kind = "raise" THEN v
  ELSE Return(Get(v.val.obj, "balance", JStr(sZero)))

Balance1 == <<"1","5","0",".","5","0">>
Balance2 == <<"7",".","2","5">>
User1 == <<"testuser">>

\* Bodies GET /api/v1/user/me may answer with.
MeBody1 ==
  ObjBody(<<"{data:{balance:150.50,username}}">>,
          [data |-> JDict([balance |-> JStr(Balance1),
                           username |-> JStr(User1)])])
MeBodies ==
  { MeBody1,
    ObjBody(<<"{data:{balance:7.25}}">>,
            [data |-> JDict([balance |-> JStr(Balance2)])]),
    ObjBody(<<"{data:{username}}">>,
            [data |-> JDict([username |-> JStr(User1)])]),
    ObjBody(<<"{balance:7.25,username}">>,
            [balance |-> JStr(Balance2), username |-> JStr(User1)]),
    ObjBody(<<"{username}">>, [username |-> JStr(User1)]),
    ObjBody(<<"{data:null,balance:7.25}">>,
            [data |-> JNull, balance |-> JStr(Balance2)]),
    ObjBody(<<"{data:{balance:null}}">>,
            [data |-> JDict([balance |-> JNull])]),
    ObjBody(<<"{}">>, EmptyDict),
    ArrayBody, EmptyBody, TextBody(HtmlText) }
MeBodies402 ==
  { ObjBody(<<"{balance:7.25,username}">>,
            [balance |-> JStr(Balance2), username |-> JStr(User1)]) }

\* __init__'s arguments and the environment it reads.
Config(api_key, timeout, base_url, env, validate) ==
  [api_key |-> api_key, timeout |-> timeout, base_url |-> base_url,
   env |-> env, validate |-> validate]

\* __init__: the object it builds, and whether the handshake raised (then
\* the constructor raises and there is no client).  io is how the
\* handshake's HTTP exchange ends; it is not used when validate is false.
NewClient(cfg, io) ==
  LET base == ResolveBaseUrl(cfg.base_url, cfg.env, cfg.api_key)
      hs == ValidateSession(Request(base \o MeEndpoint, io))
  IN [raised |-> cfg.validate /\ hs.kind = "raise",
      self |-> [api_key |-> cfg.api_key,
                timeout |-> cfg.timeout,
                base_url |-> base,
                identity |-> IF cfg.validate /\ hs.kind = "return"
                               THEN hs.val ELSE Dict(EmptyDict)]]

DEFAULT_TIMEOUT == 15

KeyTest == sMxTest \o <<"1">>
KeyLive == sMxLive \o <<"1">>
KeyOther == <<"o","t","h","e","r","_","k","e","y">>
\* The prefix is there, but not at the start.
KeyInner == <<"x","_">> \o sMxLive
UrlCustom == <<"http://custom.url">>
UrlEnv == <<"http://env.url">>

\* The client of the tests: a sandbox key, nothing overridden, and a
\* handshake answered with the identity of test_retrieve_balance_success.
TestConfig == Config(KeyTest, DEFAULT_TIMEOUT, JNull, JNull, TRUE)

(* ------------------------------- state -------------------------------- *)

VARIABLES
  pc,        \* "idle", "submit" (in transfer, before the POST), "loop" (at the
             \* while test of _poll_status), "receipt" (smart_fetch, after
             \* _negotiate_paywall returned), "done"
  op,        \* the public method in progress: "none", "pay", "fetch"
  now,       \* time.time()
  start,     \* _poll_status: start
  payArgs,   \* transfer's arguments
  payload,   \* the JSON payload of the POST
  txId,      \* _poll_status: tx_id
  submits,   \* POSTs to the pay endpoint issued by the call in progress
  polls,     \* GETs of the transaction issued by the call in progress
  sleeps,    \* time.sleep(2) calls made by the call in progress
  lastIo,    \* the last Transport call: request, final response, outcome
  pollData,  \* _poll_status: data of the last poll
  payOut,    \* how transfer ended
  result,    \* how the public method ended
  uuids,     \* uuid.uuid4() calls made so far
  fetchArgs, \* smart_fetch's arguments, as the caller passed them
  headers,   \* smart_fetch: the dict named headers, as it is now
  resp1,     \* smart_fetch: response, the answer to the first GET
  resp2,     \* smart_fetch: the answer to the second GET
  gets,      \* the requests.get calls of the call in progress, in order
  autoKeys,  \* history: the idempotency keys submitted, in order, by the
             \* calls of transfer that were given no key
  res,       \* _validate_session: what _request gave for GET /user/me in
             \* the call in progress
  posted,    \* history: what _request gave transfer for the POST of the call
             \* in progress
  self,      \* the client object: api_key, timeout, base_url, identity
  ctor,      \* history: the arguments and the environment of __init__
  waited     \* history: polls of the call in progress answered with a
             \* state the transaction can still leave

vars ==
  <<pc, op, now, start, payArgs, payload, txId, submits, polls, sleeps,
    lastIo, pollData, payOut, result, uuids, fetchArgs, headers, resp1,
    resp2, gets, waited, autoKeys, posted, res, self, ctor>>

NoArgs ==
  [recipient |-> <<>>, amount |-> 0, ikey |-> JNull, wait |-> FALSE]
NoIo ==
  [method |-> "", url |-> <<>>, fault |-> FALSE, status |-> 0,
   body |-> "", kind |-> "none", exc |-> "", msg |-> JNull]
NoData == [isObj |-> FALSE, obj |-> EmptyDict]
NoFetch ==
  [url |-> <<>>, params |-> [none |-> TRUE, d |-> EmptyDict],
   headers |-> [none |-> TRUE, d |-> EmptyDict]]
NoResponse ==
  [fault |-> FALSE, status |-> 0, hdrs |-> EmptyDict, body |-> <<>>]

\* The state once __init__(cfg) has returned; io is how the exchange of
\* its handshake ended.
Constructed(cfg, io) ==
  /\ pc = "idle"
  /\ op = "none"
  /\ now = 0
  /\ start = 0
  /\ payArgs = NoArgs
  /\ payload = EmptyDict
  /\ txId = JNull
  /\ submits = 0
  /\ polls = 0
  /\ sleeps = 0
  /\ lastIo = NoIo
  /\ pollData = NoData
  /\ payOut = NoOutcome
  /\ result = NoOutcome
  /\ uuids = 0
  /\ fetchArgs = NoFetch
  /\ headers = EmptyDict
  /\ resp1 = NoResponse
  /\ resp2 = NoResponse
  /\ gets = <<>>
  /\ waited = 0
  /\ autoKeys = <<>>
  /\ posted = NoOutcome
  /\ res = NoOutcome
  /\ ctor = [cfg |-> cfg, io |-> io]
  /\ self = NewClient(ctor.cfg, ctor.io).self

Init == Constructed(TestConfig, Response(200, MeBody1))

\* What lastIo records of a Transport call.
IoRecord(method, url, io, out) ==
  [method |-> method, url |-> url, fault |-> io.fault, status |-> io.status,
   body |-> io.body.kind, kind |-> out.kind, exc |-> out.exc,
   msg |-> out.msg]

(* ------------------------------ transfer ------------------------------ *)

Recipient1 == <<"0","x","C">>
Key1 == <<"k","1">>

\* The digits of a two-decimal fraction, as repr prints them: no trailing
\* zero beyond the first digit.
FracStr(f) ==
  IF f % 10 = 0 THEN <<DigitChars[(f \div 10) + 1]>>
  ELSE <<DigitChars[(f \div 10) + 1], DigitChars[(f % 10) + 1]>>

\* str(amount) of a float holding h hundredths: 150 gives "1.5", 200 "2.0".
FloatStr(h) == IntStr(h \div 100) \o <<".">> \o FracStr(h % 100)

\* Mutant: the key is generated once and used by every call.
UuidStrOnce(n) == <<"uuid-">> \o IntStr(1)

\* str(uuid.uuid4()) of the n-th call of uuid4.
UuidStr(n) == <<"uuid-">> \o IntStr(n)

\* transfer, lines 188-189: the idempotency key and the payload.
Payload(recipient, amount, ikey, n) ==
  [providerAddress |-> JStr(recipient),
   amount |-> JStr(FloatStr(amount)),
   idempotencyKey |-> IF Truthy(ikey) THEN ikey ELSE JStr(UuidStr(n))]

\* The calls of transfer a caller makes: with no key, with a key, and with
\* the empty string as the key; waiting for settlement or not.
PayCalls ==
  { [amount |-> 150, ikey |-> k, wait |-> w] :
      k \in {JNull, JStr(Key1)}, w \in BOOLEAN }
  \cup { [amount |-> 200, ikey |-> JStr(<<>>), wait |-> FALSE] }

\* Mutant: smart_fetch catches what transfer raises and goes on.
FinishPaySwallow(out) ==
  /\ payOut' = out
  /\ IF op = "fetch"
       THEN pc' = "receipt" /\ result' = result
       ELSE pc' = "done" /\ result' = out

\* transfer returns or raises: the public call ends, or control goes back
\* to smart_fetch with the receipt.
FinishPay(out) ==
  /\ payOut' = out
  /\ IF op = "fetch" /\ out.kind = "return"
       THEN pc' = "receipt" /\ result' = result
       ELSE pc' = "done" /\ result' = out

\* transfer lines 193-196 on the parsed submission response.
AfterSubmit(wait, data) ==
  IF ~wait THEN "return"
  ELSE IF ~data.isObj THEN "AttributeError"
  ELSE IF Truthy(Get(data.obj, "success", JNull)) THEN "poll"
  ELSE "return"

\* A caller invokes transfer(recipient, amount, idempotency_key, wait).
Transfer(recipient, amount, ikey, wait) ==
  /\ pc = "idle"
  /\ Truthy(ikey) \/ uuids < MaxUuids
  /\ op' = "pay"
  /\ pc' = "submit"
  /\ payArgs' = [recipient |-> recipient, amount |-> amount,
                 ikey |-> ikey, wait |-> wait]
  /\ uuids' = IF Truthy(ikey) THEN uuids ELSE uuids + 1
  /\ payload' = Payload(recipient, amount, ikey, uuids + 1)
  /\ UNCHANGED <<autoKeys, posted, res, self, ctor>>
  /\ UNCHANGED <<now, start, txId, submits, polls, sleeps, lastIo,
                 pollData, payOut, result, fetchArgs, headers, resp1, resp2,
                 gets, waited>>

\* transfer, lines 191-196: the POST and what follows from its response,
\* when the exchange ends as one of ios and takes one of lats.
SubmitOn(ios, lats) ==
  /\ pc = "submit"
  /\ \E io \in ios, d \in lats :
       LET url == self.base_url \o PayEndpoint
           out == Request(url, io)
           next == AfterSubmit(payArgs.wait, out.val)
       IN /\ (out.kind = "raise" \/ next # "poll") => d = 0
          /\ now' = now + d
          /\ submits' = submits + 1
          /\ autoKeys' = IF Truthy(payArgs.ikey) THEN autoKeys
                          ELSE Append(autoKeys, payload["idempotencyKey"])
          /\ posted' = out
          /\ lastIo' = IoRecord("POST", url, io, out)
          /\ IF out.kind = "raise"
               THEN FinishPay(out) /\ UNCHANGED <<txId, start>>
             ELSE IF next = "poll"
               THEN /\ txId' = Get(out.val.obj, "txId", JNull)
                    /\ start' = now + d
                    /\ pc' = "loop"
                    /\ UNCHANGED <<payOut, result>>
             ELSE IF next = "AttributeError"
               THEN FinishPay(Raise("AttributeError", JNull))
                    /\ UNCHANGED <<txId, start>>
             ELSE FinishPay(Return(out.val)) /\ UNCHANGED <<txId, start>>
  /\ UNCHANGED <<res, self, ctor>>
  /\ UNCHANGED <<op, payArgs, payload, polls, sleeps, pollData, uuids,
                 fetchArgs, headers, resp1, resp2, gets, waited>>

Submit == SubmitOn(ServiceIos(PayBodies, PayBodies402), Latencies)

(* ---------------------------- _poll_status ---------------------------- *)

\* The vocabulary of the history variable waited and of the properties:
\* what a polled record reports, told without the code's own
\* normalisation.

\* a and b are the same string up to the case of their letters.
SameIgnoringCase(a, b) ==
  /\ Len(a) = Len(b)
  /\ \A i \in 1..Len(a) :
       \/ a[i] = b[i]
       \/ \E k \in 1..26 : {a[i], b[i]} = {LowerLetters[k], UpperLetters[k]}

\* The state a polled transaction record reports, "" when it has none;
\* <<"?">> stands for a record or a state that is no string.
ReportedState(data) ==
  IF data.isObj /\ Get(data.obj, "state", JStr(<<>>)).t = "str"
    THEN Get(data.obj, "state", JStr(<<>>)).s
    ELSE <<"?">>

Reports(data, name) ==
  /\ data.isObj
  /\ Get(data.obj, "state", JStr(<<>>)).t = "str"
  /\ SameIgnoringCase(ReportedState(data), name)

\* The record reports a state the transaction can still leave.
StillOpen(data) ==
  /\ data.isObj
  /\ Get(data.obj, "state", JStr(<<>>)).t = "str"
  /\ ~Reports(data, sCOMPLETE)
  /\ ~Reports(data, sCOMPLETED)
  /\ ~Reports(data, sFAILED)

Sleep == [kind |-> "sleep", exc |-> "", msg |-> JNull, val |-> NoData]

\* Mutant: the hash is read from a key the server does not send.
PollDecisionNoHash(tx, data) ==
  IF ~data.isObj THEN Raise("AttributeError", JNull)
  ELSE
    LET raw == Get(data.obj, "state", JStr(<<>>))
    IN IF raw.t # "str" THEN Raise("AttributeError", JNull)
       ELSE
         LET state == StrUpper(raw.s)
         IN IF state \in {sCOMPLETE, sCOMPLETED}
              THEN Return(Dict([success |-> JBool(TRUE), txId |-> tx,
                                status |-> JStr(sCOMPLETE),
                                txHash |-> Get(data.obj, "hash", JNull)]))
            ELSE IF state = sFAILED
              THEN Raise("ModexiaPaymentError",
                         JStr(sTransferFailed
                              \o PyStr(Get(data.obj, "errorReason", JNull))))
            ELSE Sleep

\* Mutant: a failed transaction is polled like a pending one.
PollDecisionIgnoresFailed(tx, data) ==
  IF ~data.isObj THEN Raise("AttributeError", JNull)
  ELSE
    LET raw == Get(data.obj, "state", JStr(<<>>))
    IN IF raw.t # "str" THEN Raise("AttributeError", JNull)
       ELSE
         LET state == StrUpper(raw.s)
         IN IF state \in {sCOMPLETE, sCOMPLETED}
              THEN Return(Dict([success |-> JBool(TRUE), txId |-> tx,
                                status |-> JStr(sCOMPLETE),
                                txHash |-> Get(data.obj, "txHash", JNull)]))
            ELSE Sleep

\* _poll_status, lines 212-220: what one polled response leads to.
PollDecision(tx, data) ==
  IF ~data.isObj THEN Raise("AttributeError", JNull)
  ELSE
    LET raw == Get(data.obj, "state", JStr(<<>>))
    IN IF raw.t # "str" THEN Raise("AttributeError", JNull)
       ELSE
         LET state == StrUpper(raw.s)
         IN IF state \in {sCOMPLETE, sCOMPLETED}
              THEN Return(Dict([success |-> JBool(TRUE), txId |-> tx,
                                status |-> JStr(sCOMPLETE),
                                txHash |-> Get(data.obj, "txHash", JNull)]))
            ELSE IF state = sFAILED
              THEN Raise("ModexiaPaymentError",
                         JStr(sTransferFailed
                              \o PyStr(Get(data.obj, "errorReason", JNull))))
            ELSE Sleep

\* Mutant: an error of the poll is taken as "not settled yet".
PollOutcomeRetries(tx, out) ==
  IF out.kind = "raise" THEN Sleep ELSE PollDecision(tx, out.val)

\* Lines 210-220 on the outcome of the poll's _request: what it raises
\* passes through _poll_status.
PollOutcome(tx, out) ==
  IF out.kind = "raise" THEN out ELSE PollDecision(tx, out.val)

\* Mutant: the budget is measured on the clock itself, not from loop entry.
WithinBudgetAbsolute(t0, t) == t < PollBudget

\* The while test, line 209, with start = t0 and time.time() = t.
WithinBudget(t0, t) == t - t0 < PollBudget

\* One pass of the while loop: the test succeeds, the poll is issued, and
\* the call returns, raises or sleeps.
PollIterOn(ios, lats) ==
  /\ pc = "loop"
  /\ WithinBudget(start, now)
  /\ \E io \in ios, d \in lats :
       LET url == self.base_url \o TxnEndpoint(txId)
           out == Request(url, io)
           dec == PollOutcome(txId, out)
       IN /\ dec.kind # "sleep" => d = 0
          /\ polls' = polls + 1
          /\ lastIo' = IoRecord("GET", url, io, out)
          /\ pollData' = IF out.kind = "raise" THEN NoData ELSE out.val
          /\ waited' = IF out.kind = "return" /\ StillOpen(out.val)
                         THEN waited + 1 ELSE waited
          /\ IF dec.kind = "sleep"
               THEN /\ now' = now + d + PollInterval
                    /\ sleeps' = sleeps + 1
                    /\ UNCHANGED <<pc, payOut, result>>
               ELSE /\ now' = now + d
                    /\ sleeps' = sleeps
                    /\ FinishPay(dec)
  /\ UNCHANGED <<autoKeys, posted, res, self, ctor>>
  /\ UNCHANGED <<op, start, payArgs, payload, txId, submits, uuids,
                 fetchArgs, headers, resp1, resp2, gets>>

PollIter == PollIterOn(ServiceIos(TxnBodies, TxnBodies402), Latencies)

\* The while test fails: line 221, the soft timeout.
PollTimeout ==
  /\ pc = "loop"
  /\ ~WithinBudget(start, now)
  /\ FinishPay(Return(Dict([success |-> JBool(TRUE),
                            status |-> JStr(sPENDING), txId |-> txId])))
  /\ UNCHANGED <<autoKeys, posted, res, self, ctor>>
  /\ UNCHANGED <<op, now, start, payArgs, payload, txId, submits, polls,
                 sleeps, lastIo, pollData, uuids, fetchArgs, headers, resp1,
                 resp2, gets, waited>>

\* The public call has ended; the client is ready for the next one.  Only
\* differences of time.time() are observable, so the clock restarts.
Reset ==
  /\ pc = "done"
  /\ pc' = "idle"
  /\ op' = "none"
  /\ now' = 0
  /\ start' = 0
  /\ payArgs' = NoArgs
  /\ payload' = EmptyDict
  /\ txId' = JNull
  /\ submits' = 0
  /\ polls' = 0
  /\ sleeps' = 0
  /\ lastIo' = NoIo
  /\ pollData' = NoData
  /\ payOut' = NoOutcome
  /\ result' = NoOutcome
  /\ fetchArgs' = NoFetch
  /\ headers' = EmptyDict
  /\ resp1' = NoResponse
  /\ resp2' = NoResponse
  /\ gets' = <<>>
  /\ waited' = 0
  /\ posted' = NoOutcome
  /\ res' = NoOutcome
  /\ UNCHANGED <<uuids, autoKeys, self, ctor>>

(* --------------------------- retrieve_balance -------------------------- *)

\* The two public names of the balance query.
BalanceNames == {"retrieve_balance", "get_balance"}

\* A caller invokes retrieve_balance() or get_balance(): one GET of
\* /api/v1/user/me through _validate_session, then the balance field.
RetrieveBalanceOn(name, ios) ==
  /\ pc = "idle"
  /\ \E io \in ios :
       LET url == self.base_url \o MeEndpoint
           out == Request(url, io)
       IN /\ op' = name
          /\ pc' = "done"
          /\ lastIo' = IoRecord("GET", url, io, out)
          /\ res' = out
          /\ result' = BalanceFrom(self, ValidateSession(out))
  /\ UNCHANGED <<now, start, payArgs, payload, txId, submits, polls, sleeps,
                 pollData, payOut, uuids, fetchArgs, headers, resp1, resp2,
                 gets, waited, autoKeys, posted, self, ctor>>

RetrieveBalance(name) ==
  RetrieveBalanceOn(name, ServiceIos(MeBodies, MeBodies402))

(* ----------------------------- smart_fetch ---------------------------- *)

sAmount == <<"a","m","o","u","n","t","=">>
sDestination == <<"d","e","s","t","i","n","a","t","i","o","n","=">>

\* WWW-Authenticate values of the external origin.
ChallengeFull == <<"L","4","0","2"," ","a","m","o","u","n","t","=","\"","1",".","5","0","\""," ","d","e","s","t","i","n","a","t","i","o","n","=","\"","0","x","C","\"">>
ChallengeNoAmount == <<"L","4","0","2"," ","d","e","s","t","i","n","a","t","i","o","n","=","\"","0","x","C","\"">>
ChallengeNoDestination == <<"L","4","0","2"," ","a","m","o","u","n","t","=","\"","1",".","5","0","\"">>
ChallengeUnquoted == <<"L","4","0","2"," ","a","m","o","u","n","t","=","1",".","5","0"," ","d","e","s","t","i","n","a","t","i","o","n","=","0","x","C">>
ChallengeEmptyAmount == <<"L","4","0","2"," ","a","m","o","u","n","t","=","\"","\""," ","d","e","s","t","i","n","a","t","i","o","n","=","\"","0","x","C","\"">>
ChallengeBadAmount == <<"L","4","0","2"," ","a","m","o","u","n","t","=","\"","a","b","c","\""," ","d","e","s","t","i","n","a","t","i","o","n","=","\"","0","x","C","\"">>

Challenges ==
  { ChallengeFull, ChallengeNoAmount,
    ChallengeNoDestination, ChallengeUnquoted, ChallengeEmptyAmount,
    ChallengeBadAmount }

\* A response of the external origin: status, headers and a body.
OriginResponse(status, hdrs, body) ==
  [fault |-> FALSE, status |-> status, hdrs |-> hdrs, body |-> body]
OriginFault ==
  [fault |-> TRUE, status |-> 0, hdrs |-> EmptyDict, body |-> <<>>]

\* Every way the first GET can end.
OriginIos ==
  { OriginResponse(402, "WWW-Authenticate" :> JStr(c), <<"pay">>) :
      c \in Challenges }
  \cup { OriginResponse(402, EmptyDict, <<"pay">>),
         OriginResponse(403, "WWW-Authenticate" :> JStr(ChallengeFull),
                        <<"denied">>),
         OriginResponse(200, EmptyDict, <<"secret">>),
         OriginResponse(404, EmptyDict, <<"missing">>),
         OriginResponse(500, EmptyDict, <<"oops">>),
         OriginFault }

\* Every way the second GET can end.
RetryIos ==
  { OriginResponse(402, "WWW-Authenticate" :> JStr(ChallengeFull), <<"pay">>),
    OriginResponse(200, EmptyDict, <<"secret">>),
    OriginResponse(401, EmptyDict, <<"denied">>),
    OriginResponse(500, EmptyDict, <<"oops">>),
    OriginFault }

Url1 == <<"https://example.com/premium-data">>
Params1 == [q |-> JStr(<<"1">>)]
Headers1 ==
  [Accept |-> JStr(<<"text/html">>), Authorization |-> JStr(<<"Bearer b">>)]

\* An optional argument: None, or a dict.
None == [none |-> TRUE, d |-> EmptyDict]
Some(d) == [none |-> FALSE, d |-> d]

\* The (params, headers) a caller passes to smart_fetch.
FetchCalls ==
  { [params |-> None, headers |-> None],
    [params |-> Some(Params1), headers |-> Some(Headers1)] }

\* requests.get(url, params=params, headers=headers, timeout=...)
GetRequest(url, params, hdrs) ==
  [url |-> url, params |-> params, headers |-> hdrs]

\* _negotiate_paywall, lines 253-260, up to the call of transfer: "none"
\* (return None), "error" (float raises ValueError) or "pay" with the
\* arguments of transfer.
Negotiate(response) ==
  LET auth == Get(response.hdrs, "WWW-Authenticate", JStr(<<>>)).s
      amt == ReSearch(sAmount, auth)
      dst == ReSearch(sDestination, auth)
  IN IF amt.found /\ dst.found
       THEN IF ParseFloat(amt.group) < 0
              THEN [step |-> "error", recipient |-> <<>>, amount |-> 0]
              ELSE [step |-> "pay", recipient |-> dst.group,
                    amount |-> ParseFloat(amt.group)]
       ELSE [step |-> "none", recipient |-> <<>>, amount |-> 0]

\* Mutant: every status but 200 is taken for a paywall.
FirstStepNot200(io) ==
  IF io.fault THEN "raise"
  ELSE IF io.status = 200 \/ Negotiate(io).step = "none" THEN "return"
  ELSE Negotiate(io).step

\* smart_fetch, lines 235-244, on the answer to the first GET: "raise"
\* (requests.get raised), "return" (the answer is returned), "error" or
\* "pay" (see Negotiate).
FirstStep(io) ==
  IF io.fault THEN "raise"
  ELSE IF io.status # 402 \/ Negotiate(io).step = "none" THEN "return"
  ELSE Negotiate(io).step

\* Mutant: the Authorization header lacks the scheme.
WithProofNoScheme(hdrs, receipt) ==
  DictSet(DictSet(hdrs, "Authorization",
                  JStr(PyStr(Get(receipt, "txId", JNull)))),
          "X-Payment-Proof", Get(receipt, "txId", JNull))

\* smart_fetch, lines 240-241: the proof headers added to the dict.
WithProof(hdrs, receipt) ==
  DictSet(DictSet(hdrs, "Authorization",
                  JStr(sL402 \o PyStr(Get(receipt, "txId", JNull)))),
          "X-Payment-Proof", Get(receipt, "txId", JNull))

\* A caller invokes smart_fetch(url, params, headers): lines 234-238 and
\* _negotiate_paywall up to its call of transfer.
SmartFetchOn(url, call, ios) ==
  /\ pc = "idle"
  /\ \E io \in ios :
       LET hdrs == IF call.headers.none THEN EmptyDict ELSE call.headers.d
           neg == Negotiate(io)
           step == FirstStep(io)
       IN /\ op' = "fetch"
          /\ fetchArgs' = [url |-> url, params |-> call.params,
                           headers |-> call.headers]
          /\ headers' = hdrs
          /\ gets' = <<GetRequest(url, call.params, hdrs)>>
          /\ IF step = "raise"
               THEN /\ result' = Raise("RequestException", JNull)
                    /\ pc' = "done"
                    /\ resp1' = resp1
                    /\ UNCHANGED <<payArgs, payload, uuids>>
             ELSE IF step = "return"
               THEN /\ result' = Return(io)
                    /\ pc' = "done"
                    /\ resp1' = io
                    /\ UNCHANGED <<payArgs, payload, uuids>>
             ELSE IF step = "error"
               THEN /\ result' = Raise("ValueError", JNull)
                    /\ pc' = "done"
                    /\ resp1' = io
                    /\ UNCHANGED <<payArgs, payload, uuids>>
             ELSE /\ uuids < MaxUuids
                  /\ result' = result
                  /\ pc' = "submit"
                  /\ resp1' = io
                  /\ payArgs' = [recipient |-> neg.recipient,
                                 amount |-> neg.amount,
                                 ikey |-> JNull, wait |-> TRUE]
                  /\ uuids' = uuids + 1
                  /\ payload' = Payload(neg.recipient, neg.amount, JNull,
                                        uuids + 1)
  /\ UNCHANGED <<autoKeys, posted, res, self, ctor>>
  /\ UNCHANGED <<now, start, txId, submits, polls, sleeps, lastIo,
                 pollData, payOut, resp2, waited>>

SmartFetch(url, call) == SmartFetchOn(url, call, OriginIos)

\* Mutant: a paid GET that is answered 402 is negotiated again.
RetryAgain ==
  /\ pc = "receipt"
  /\ IF payOut.val.isObj /\ DOMAIN payOut.val.obj # {}
       THEN \E io \in RetryIos :
              /\ headers' = WithProof(headers, payOut.val.obj)
              /\ gets' = Append(gets, GetRequest(fetchArgs.url,
                                                 fetchArgs.params, headers'))
              /\ resp2' = io
              /\ IF ~io.fault /\ io.status = 402
                   THEN pc' = "submit" /\ result' = result
                   ELSE /\ pc' = "done"
                        /\ result' = IF io.fault
                                       THEN Raise("RequestException", JNull)
                                       ELSE Return(io)
       ELSE /\ pc' = "done"
            /\ result' = Return(resp1)
            /\ UNCHANGED <<headers, gets, resp2>>
  /\ UNCHANGED <<autoKeys, posted, res, self, ctor>>
  /\ UNCHANGED <<op, now, start, payArgs, payload, txId, submits, polls, sleeps,
                 lastIo, pollData, payOut, uuids, fetchArgs, resp1, waited>>

\* smart_fetch, lines 239-244, once transfer has returned the receipt.
Retry ==
  /\ pc = "receipt"
  /\ pc' = "done"
  /\ IF payOut.val.isObj /\ DOMAIN payOut.val.obj # {}
       THEN \E io \in RetryIos :
              /\ headers' = WithProof(headers, payOut.val.obj)
              /\ gets' = Append(gets, GetRequest(fetchArgs.url,
                                                 fetchArgs.params, headers'))
              /\ resp2' = io
              /\ result' = IF io.fault THEN Raise("RequestException", JNull)
                           ELSE Return(io)
       ELSE /\ result' = Return(resp1)
            /\ UNCHANGED <<headers, gets, resp2>>
  /\ UNCHANGED <<autoKeys, posted, res, self, ctor>>
  /\ UNCHANGED <<op, now, start, payArgs, payload, txId, submits, polls, sleeps,
                 lastIo, pollData, payOut, uuids, fetchArgs, resp1, waited>>

Next ==
  \/ \E call \in PayCalls :
       Transfer(Recipient1, call.amount, call.ikey, call.wait)
  \/ Submit
  \/ PollIter
  \/ PollTimeout
  \/ \E name \in BalanceNames : RetrieveBalance(name)
  \/ \E call \in FetchCalls : SmartFetch(Url1, call)
  \/ Retry
  \/ Reset

Spec == Init /\ [][Next]_vars

(* ----------------- every way of constructing the client ---------------- *)

Keys == {KeyTest, KeyLive, KeyOther, KeyInner}
Overrides == {JNull, JStr(<<>>), JStr(UrlCustom)}
EnvValues == {JNull, JStr(<<>>), JStr(UrlEnv)}
ShortTimeout == 5

\* Constructor calls: every key with every base_url argument and every
\* value of MODEXIA_BASE_URL; without a handshake and the default
\* timeout, or with a handshake and a timeout of the caller's.
Configs ==
  { Config(k, DEFAULT_TIMEOUT, b, e, FALSE) :
      k \in Keys, b \in Overrides, e \in EnvValues }
  \cup { Config(k, ShortTimeout, b, e, TRUE) :
           k \in Keys, b \in Overrides, e \in EnvValues }

\* How the exchange of the handshake may end.
HandshakeIos ==
  { Response(200, MeBody1), Response(200, EmptyBody),
    Response(401, TextBody(HtmlText)), Fault }

\* __init__ has returned a client (a handshake that raises leaves none).
\* Without validate no request is made: the constructor succeeds with the
\* network down.
InitConfig ==
  \E cfg \in Configs, io \in HandshakeIos :
    /\ ~NewClient(cfg, io).raised
    /\ cfg.validate \/ io = Fault
    /\ Constructed(cfg, io)

\* A payment service that answers at once: the submission is accepted or
\* refused, a poll reports PENDING or COMPLETE or is cut off.
QuickPayIos ==
  { Response(200, ObjBody(<<"{success:true,txId:tx1}">>,
                          [success |-> JBool(TRUE), txId |-> JStr(Tx1)])),
    Response(400, ErrorObjBody) }
QuickTxnIos ==
  { Response(200, ObjBody(<<"{state}">>, [state |-> JStr(sPENDING)])),
    Response(200, ObjBody(<<"{state,txHash}">>,
                          [state |-> JStr(sCOMPLETE),
                           txHash |-> JStr(Hash1)])),
    Fault }
QuickMeIos == { Response(200, MeBody1), Response(401, TextBody(HtmlText)) }
QuickOriginIos ==
  { OriginResponse(402, "WWW-Authenticate" :> JStr(ChallengeFull),
                   <<"pay">>),
    OriginResponse(200, EmptyDict, <<"secret">>) }

\* The public methods and their steps, on any client, against the service
\* that answers at once.
NextConfig ==
  \/ \E call \in PayCalls :
       Transfer(Recipient1, call.amount, call.ikey, call.wait)
  \/ SubmitOn(QuickPayIos, {0})
  \/ PollIterOn(QuickTxnIos, {0})
  \/ PollTimeout
  \/ \E name \in BalanceNames : RetrieveBalanceOn(name, QuickMeIos)
  \/ \E call \in FetchCalls : SmartFetchOn(Url1, call, QuickOriginIos)
  \/ Retry
  \/ Reset

SpecConfig == InitConfig /\ [][NextConfig]_vars

(* ----------------------------- properties ----------------------------- *)

sSETTLING == <<"S","E","T","T","L","I","N","G">>

\* transfer has returned or raised.
Ended == pc \in {"done", "receipt"}

\* The last Transport call was a poll, and it returned the parsed body.
LastPoll == lastIo.method = "GET" /\ lastIo.kind = "return"

\* s ends with suffix.
EndsWith(s, suffix) ==
  /\ Len(suffix) <= Len(s)
  /\ SubSeq(s, Len(s) - Len(suffix) + 1, Len(s)) = suffix

\* The headers dict the caller passed to smart_fetch ({} for None).
CallerHeaders ==
  IF fetchArgs.headers.none THEN EmptyDict ELSE fetchArgs.headers.d

\* h carries name followed by a value in quotes.
HasQuoted(name, h) ==
  \E i \in 1..Len(h) :
    /\ i + Len(name) <= Len(h)
    /\ SubSeq(h, i, i + Len(name) - 1) = name
    /\ h[i + Len(name)] = Quote
    /\ \E j \in (i + Len(name) + 1)..Len(h) : h[j] = Quote

\* The response has no WWW-Authenticate header, or one that lacks a quoted
\* amount or a quoted destination.
Malformed(response) ==
  \/ "WWW-Authenticate" \notin DOMAIN response.hdrs
  \/ ~HasQuoted(sAmount, response.hdrs["WWW-Authenticate"].s)
  \/ ~HasQuoted(sDestination, response.hdrs["WWW-Authenticate"].s)

\* C1 (as claimed): every Transport call that ends with an HTTP status
\* raises ModexiaAuthError for 401 and 403, raises ModexiaPaymentError for
\* every other status >= 400 except 402, and raises nothing for 402.
C1_Classification ==
  (lastIo.kind # "none" /\ ~lastIo.fault) =>
    /\ lastIo.status \in {401, 403} =>
         (lastIo.kind = "raise" /\ lastIo.exc = "ModexiaAuthError")
    /\ (lastIo.status >= 400 /\ lastIo.status \notin {401, 402, 403}) =>
         (lastIo.kind = "raise" /\ lastIo.exc = "ModexiaPaymentError")
    /\ lastIo.status = 402 => lastIo.kind = "return"

\* C2: once a poll reports COMPLETE after n polls that reported a state
\* the transaction can still leave, transfer has returned
\* {success, txId, status COMPLETE, txHash of that response}, after
\* exactly n + 1 polls and n sleeps, and the poller is no longer in its
\* loop.
C2_CompleteAfterN ==
  (LastPoll /\ Reports(pollData, sCOMPLETE)) =>
    /\ Ended
    /\ payOut = Return(Dict([success |-> JBool(TRUE), txId |-> txId,
                             status |-> JStr(sCOMPLETE),
                             txHash |-> Get(pollData.obj, "txHash", JNull)]))
    /\ polls = waited + 1
    /\ sleeps = waited

C2_Witness ==
  /\ op = "pay" /\ pc = "done"
  /\ LastPoll /\ Reports(pollData, sCOMPLETE)
  /\ waited = 2 /\ polls = 3
  /\ Get(payOut.val.obj, "txHash", JNull) = JStr(Hash1)

\* C3: when transfer(wait=True) has ended and every poll it issued
\* reported a state the transaction can still leave, it returned exactly
\* {success, status PENDING, txId}, and at least PollBudget units have
\* passed since the loop was entered.
C3_SoftTimeout ==
  (Ended /\ payArgs.wait /\ polls >= 1 /\ waited = polls) =>
    /\ payOut = Return(Dict([success |-> JBool(TRUE),
                             status |-> JStr(sPENDING), txId |-> txId]))
    /\ now - start >= PollBudget

C3_Witness ==
  /\ op = "pay" /\ pc = "done" /\ payArgs.wait
  /\ polls >= 1 /\ waited = polls
  /\ start = 1
  /\ Get(payOut.val.obj, "status", JNull) = JStr(sPENDING)

\* C4: once a poll reports FAILED (in any case), the call has raised
\* ModexiaPaymentError with a message that ends with the errorReason of
\* that response, that poll was the last request, and no sleep followed it.
C4_PolledFailed ==
  (LastPoll /\ Reports(pollData, sFAILED)) =>
    /\ pc = "done"
    /\ payOut.kind = "raise"
    /\ payOut.exc = "ModexiaPaymentError"
    /\ result = payOut
    /\ EndsWith(payOut.msg.s, PyStr(Get(pollData.obj, "errorReason", JNull)))
    /\ polls = waited + 1
    /\ sleeps = waited
    /\ Len(gets) <= 1

C4_Witness ==
  /\ op = "pay" /\ pc = "done"
  /\ LastPoll /\ Reports(pollData, sFAILED)
  /\ polls = 2
  /\ Get(pollData.obj, "errorReason", JNull) = JStr(Reason1)

C6_PaidRetry ==
  ( /\ op = "fetch" /\ pc = "done"
    /\ resp1.status = 402 /\ ~Malformed(resp1)
    /\ payOut.kind = "return"
    /\ Truthy(Get(payOut.val.obj, "success", JNull))
    /\ Get(payOut.val.obj, "txId", JNull).t = "str" ) =>
    LET T == Get(payOut.val.obj, "txId", JNull).s
        proof == {"Authorization", "X-Payment-Proof"}
    IN /\ Len(gets) = 2
       /\ gets[1].url = fetchArgs.url /\ gets[2].url = fetchArgs.url
       /\ gets[1].params = fetchArgs.params
       /\ gets[2].params = fetchArgs.params
       /\ DOMAIN gets[2].headers = DOMAIN CallerHeaders \cup proof
       /\ gets[2].headers["Authorization"] = JStr(sL402 \o T)
       /\ gets[2].headers["X-Payment-Proof"] = JStr(T)
       /\ \A k \in DOMAIN CallerHeaders \ proof :
            gets[2].headers[k] = CallerHeaders[k]
       /\ ~resp2.fault => result = Return(resp2)

C6_Witness ==
  /\ op = "fetch" /\ pc = "done"
  /\ ~fetchArgs.headers.none
  /\ Get(payOut.val.obj, "txId", JNull) = JStr(Tx1)
  /\ Get(payOut.val.obj, "status", JNull) = JStr(sCOMPLETE)
  /\ Len(gets) = 2
  /\ resp2.status = 200
  /\ result = Return(resp2)

\* C7: a smart_fetch call issues at most two GETs and at most one payment
\* submission, and once the second GET is answered, with whatever status,
\* the call has ended and returned that answer.
C7_AtMostOneRetry ==
  op = "fetch" =>
    /\ Len(gets) <= 2
    /\ submits <= 1
    /\ (Len(gets) = 2 /\ ~resp2.fault) =>
         (pc = "done" /\ result = Return(resp2))

C7_Witness ==
  /\ op = "fetch" /\ pc = "done"
  /\ Len(gets) = 2 /\ submits = 1
  /\ resp2.status = 402
  /\ result = Return(resp2)

\* C8: when the first answer is a 402 without a WWW-Authenticate header, or
\* with one that lacks a quoted amount or a quoted destination, smart_fetch
\* has returned that answer after one GET and no request to the payment
\* service.
C8_MalformedChallenge ==
  (op = "fetch" /\ resp1.status = 402 /\ Malformed(resp1)) =>
    /\ pc = "done"
    /\ result = Return(resp1)
    /\ Len(gets) = 1
    /\ submits = 0
    /\ polls = 0

C8_Witness ==
  /\ op = "fetch" /\ pc = "done"
  /\ resp1.status = 402
  /\ Get(resp1.hdrs, "WWW-Authenticate", JNull) = JStr(ChallengeUnquoted)
  /\ result = Return(resp1)

\* The pay endpoint answered the submission with an error status that
\* Transport classifies as a payment error.
SubmissionRejected ==
  /\ lastIo.method = "POST"
  /\ ~lastIo.fault
  /\ lastIo.status >= 400
  /\ lastIo.status \notin {401, 402, 403}

\* C9: when, inside smart_fetch, the submission is rejected or a poll
\* reports FAILED, smart_fetch has raised ModexiaPaymentError and issued
\* no second GET.
C9_PaymentFails ==
  (op = "fetch"
   /\ (SubmissionRejected \/ (LastPoll /\ Reports(pollData, sFAILED)))) =>
    /\ pc = "done"
    /\ result.kind = "raise"
    /\ result.exc = "ModexiaPaymentError"
    /\ Len(gets) = 1

C9_Witness ==
  /\ op = "fetch" /\ pc = "done"
  /\ LastPoll /\ Reports(pollData, sFAILED)
  /\ polls >= 2
  /\ result.exc = "ModexiaPaymentError"

\* C10: when the first answer has a status other than 402, smart_fetch has
\* returned it after exactly one GET and no request to the payment service.
C10_NotPaywall ==
  (op = "fetch" /\ resp1.status \notin {0, 402}) =>
    /\ pc = "done"
    /\ result = Return(resp1)
    /\ Len(gets) = 1
    /\ submits = 0
    /\ polls = 0

C10_Witness ==
  /\ op = "fetch" /\ pc = "done"
  /\ resp1.status = 403
  /\ "WWW-Authenticate" \in DOMAIN resp1.hdrs
  /\ result = Return(resp1)

\* A caller supplies an idempotency key when it passes a string that is not
\* empty; None and "" both leave the key to the client.
Supplied(k) == k.t = "str" /\ Len(k.s) > 0

\* C11: every pay call that has submitted sent exactly the fields
\* providerAddress (the recipient), amount (a string that denotes the
\* amount) and idempotencyKey; a supplied key is sent as it is; a call
\* that supplied none sent a generated key, and no two such calls sent
\* the same key.
C11_Payload ==
  /\ submits >= 1 =>
       /\ DOMAIN payload = {"providerAddress", "amount", "idempotencyKey"}
       /\ payload["providerAddress"] = JStr(payArgs.recipient)
       /\ payload["amount"].t = "str"
       /\ ParseFloat(payload["amount"].s) = payArgs.amount
       /\ Supplied(payload["idempotencyKey"])
       /\ Supplied(payArgs.ikey) =>
            payload["idempotencyKey"] = payArgs.ikey
       /\ ~Supplied(payArgs.ikey) =>
            /\ Len(autoKeys) >= 1
            /\ autoKeys[Len(autoKeys)] = payload["idempotencyKey"]
  /\ \A i, j \in 1..Len(autoKeys) : i # j => autoKeys[i] # autoKeys[j]

\* Two calls without a key have submitted, and now one with a key has.
C11_Witness ==
  /\ Len(autoKeys) = 2
  /\ submits >= 1
  /\ payArgs.ikey = JStr(Key1)

\* The submission of the call in progress got a response that _request
\* gave back to transfer.
Submitted == submits >= 1 /\ posted.kind = "return"

\* A parsed response reports success when it is an object whose success
\* field is true.
ReportsSuccess(data) ==
  /\ data.isObj
  /\ "success" \in DOMAIN data.obj
  /\ data.obj["success"] = JBool(TRUE)

\* The call in progress is in the poller or has been there.
EnteredPoller == pc = "loop" \/ polls >= 1

\* C12: once the submission has a response, pay is in the poller (or has
\* been) iff wait is true and the response reports success; in every
\* other case pay has returned that response as it is and no
\* transaction-status request has been issued.
C12_PollIffWaitAndSuccess ==
  Submitted =>
    /\ EnteredPoller <=> (payArgs.wait /\ ReportsSuccess(posted.val))
    /\ ~(payArgs.wait /\ ReportsSuccess(posted.val)) =>
         payOut = Return(posted.val) /\ polls = 0

\* The exception types _request is documented to raise.
Classified ==
  {"ModexiaAuthError", "ModexiaPaymentError", "ModexiaNetworkError"}

\* C13: every Transport call either gave back parsed JSON or raised one of
\* the three classified errors, whatever the response or fault was; and a
\* response that is no error and has an empty body gave the empty mapping.
C13_ReturnsOrClassified ==
  lastIo.method # "" =>
    /\ lastIo.kind = "return" \/
         (lastIo.kind = "raise" /\ lastIo.exc \in Classified)
    /\ (lastIo.kind = "return" /\ lastIo.body = "empty") =>
         LET data == IF lastIo.method = "POST" THEN posted.val
                     ELSE IF op \in BalanceNames THEN res.val
                     ELSE pollData
         IN data.isObj /\ DOMAIN data.obj = {}

\* The identity record in a parsed response: what is under data when the
\* response has that key, else the whole response.
IdentityRecord(data) ==
  IF "data" \in DOMAIN data.obj THEN data.obj["data"].d ELSE data.obj

\* The identity the constructor cached: what the handshake returned, or
\* the empty mapping when validate was false.
CachedAtConstruction == NewClient(ctor.cfg, ctor.io).self.identity

ExcerptPrefix(status, url) ==
  <<"H","T","T","P"," ">> \o IntStr(status) \o <<" ","a","t"," ">> \o url
    \o <<":"," ">>

\* The characters of an error message beyond what the client puts in
\* front of the server's text are at most the cap.
Capped(o) ==
  (o.kind = "raise" /\ o.exc = "ModexiaPaymentError" /\ o.msg.t = "str") =>
    \/ Len(o.msg.s) <= Len(sTransferFailed) + ExcerptCap
    \/ Len(o.msg.s) <= Len(ExcerptPrefix(lastIo.status, lastIo.url))
                         + ExcerptCap

\* C15: the message of every ModexiaPaymentError holds at most ExcerptCap
\* characters of server-provided text.
C15_BoundedMessage == Capped(payOut) /\ Capped(result)

\* An override or an environment value is given when it is a string that
\* is not empty.
Given(v) == v.t = "str" /\ Len(v.s) > 0

\* The key begins with the prefix.
BeginsWith(key, prefix) ==
  /\ Len(key) >= Len(prefix)
  /\ \A i \in 1..Len(prefix) : key[i] = prefix[i]

\* C16: in every state of every client, whatever was called on it,
\* base_url is the base_url argument if given, else MODEXIA_BASE_URL if
\* given, else the live URL for a key that begins with mx_live_, the
\* sandbox URL for one that begins with mx_test_, else the local URL; and
\* api_key and timeout are the constructor's arguments.
C16_ResolvedOnce ==
  LET cfg == ctor.cfg
  IN /\ Given(cfg.base_url) => self.base_url = cfg.base_url.s
     /\ (~Given(cfg.base_url) /\ Given(cfg.env)) =>
          self.base_url = cfg.env.s
     /\ (~Given(cfg.base_url) /\ ~Given(cfg.env)) =>
          self.base_url =
            IF BeginsWith(cfg.api_key, sMxLive)
              THEN <<"https://api.modexia.software">>
            ELSE IF BeginsWith(cfg.api_key, sMxTest)
              THEN <<"https://sandbox.modexia.software">>
            ELSE <<"http://localhost:3000">>
     /\ self.api_key = cfg.api_key
     /\ self.timeout = cfg.timeout

\* A client built with a live key, an override and the environment
\* variable has finished a payment that was polled.
C16_Witness ==
  /\ ctor.cfg.api_key = KeyLive
  /\ ctor.cfg.base_url = JStr(UrlCustom)
  /\ ctor.cfg.env = JStr(UrlEnv)
  /\ self.base_url = UrlCustom
  /\ op = "pay" /\ pc = "done" /\ polls >= 1

\* transfer(wait=True) has ended after entering the poller.
PolledCallEnded ==
  Ended /\ payOut.kind # "none" /\ payArgs.wait /\ EnteredPoller

\* The three ways the claim lets a polled call end.
EndsAsClaimed ==
  \/ /\ payOut.kind = "return"
     /\ payOut.val.isObj
     /\ Get(payOut.val.obj, "status", JNull)
          \in {JStr(sCOMPLETE), JStr(sPENDING)}
  \/ payOut.kind = "raise" /\ payOut.exc \in Classified

\* C17: a call in the poller has issued at most 15 polls, each poll but
\* the one in progress was followed by a sleep of the interval (so the
\* elapsed time bounds the polls and the loop is left once 30 units have
\* passed); a call that has left the poller issued at least one poll and
\* ended with the COMPLETE result, the soft-timeout PENDING result or a
\* classified error.
C17_BoundedPolling ==
  /\ polls <= 15
  /\ pc = "loop" =>
       /\ polls * PollInterval <= now - start
       /\ polls >= 1 => (polls - 1) * PollInterval < PollBudget
  /\ PolledCallEnded => (polls >= 1 /\ EndsAsClaimed)

\* The scheduling of a blocking call: a request that was issued ends, and
\* the loop goes on to its next test.
SpecLive ==
  /\ Spec
  /\ WF_vars(Submit) /\ WF_vars(PollIter) /\ WF_vars(PollTimeout)
  /\ WF_vars(Retry)

\* Every call of transfer that is under way ends.
PayTerminates == (pc \in {"submit", "loop"}) ~> Ended

\* The last request of a payment, the POST or a poll, raised one of the
\* three classified errors.
TransportRaised ==
  /\ op \in {"pay", "fetch"}
  /\ lastIo.kind = "raise"
  /\ lastIo.exc \in Classified

\* C18: when the submission or a poll raised a classified error, transfer
\* has raised that error, type and message, and so has the public call
\* (transfer itself, or smart_fetch around it); the call is over, so no
\* poll and no second GET followed.
C18_ErrorsSurface ==
  TransportRaised =>
    /\ pc = "done"
    /\ payOut = Raise(lastIo.exc, lastIo.msg)
    /\ result = payOut
    /\ Len(gets) <= 1

\* smart_fetch has raised the ModexiaAuthError of the third poll.
C18_Witness ==
  /\ TransportRaised
  /\ op = "fetch"
  /\ lastIo.method = "GET" /\ polls = 3
  /\ result.exc = "ModexiaAuthError"

\* C19: whenever smart_fetch has issued a second GET, the submission of
\* its payment had reported success with a transaction id that is a
\* string, and the Authorization and X-Payment-Proof headers of that GET
\* carry this id.
C19_ProofOnlyAfterSuccess ==
  (op = "fetch" /\ Len(gets) = 2) =>
    /\ Submitted
    /\ ReportsSuccess(posted.val)
    /\ LET id == Get(posted.val.obj, "txId", JNull)
       IN /\ id.t = "str"
          /\ gets[2].headers["Authorization"] = JStr(sL402 \o id.s)
          /\ gets[2].headers["X-Payment-Proof"] = id

\* C20: during and after a call of smart_fetch that was given a headers
\* dict, that dict holds exactly the entries it held when it was passed,
\* and every GET was sent with the params that were passed.
C20_ArgumentsUnchanged ==
  op = "fetch" =>
    /\ ~fetchArgs.headers.none => headers = fetchArgs.headers.d
    /\ \A i \in 1..Len(gets) : gets[i].params = fetchArgs.params

====
